---- MODULE Spec2Model ----
(***************************************************************************)
(* A model of starknet_py's ABI type model (cairo/data_types.py), the      *)
(* structure resolver (utils/abi/_structure_resolver.py), the codec        *)
(* runtime (utils/data_transformer/types/CairoType.py), the type parser    *)
(* and ABI reader (cairo/type_parser.py, utils/abi/abi_reader.py) and the  *)
(* wrapped named tuple (utils/wrapped_named_tuple.py).                     *)
(*                                                                         *)
(* The library is synchronous and keeps no state between calls, so the     *)
(* state machine is: a caller picks one entry point and its arguments, the *)
(* entry point runs to completion, and the state records the call (op,     *)
(* arg) and what it returned or raised (ret).  Python exceptions are       *)
(* outcomes: every operator that models a Python function returns          *)
(* [ok, err, val], with err = [type, detail] when it raised.               *)
(***************************************************************************)
EXTENDS Integers, Sequences, FiniteSets, TLC

VARIABLES op, arg, ret

vars == <<op, arg, ret>>

(***************************************************************************)
(* Outcomes of a Python call.                                              *)
(***************************************************************************)
NoErr == [type |-> "", detail |-> <<>>]

Ok(v) == [ok |-> TRUE, err |-> NoErr, val |-> v]

Raise(type, detail) == [ok |-> FALSE, err |-> [type |-> type, detail |-> detail], val |-> <<>>]

(***************************************************************************)
(* Python containers.  A dict is a function on its key set; an ordered     *)
(* dict that is iterated is a sequence of [n, t] pairs.                    *)
(***************************************************************************)
EmptyDict == [k \in {} |-> <<>>]

Put(d, k, v) == [x \in (DOMAIN d) \cup {k} |-> IF x = k THEN v ELSE d[x]]

RECURSIVE SetToSeq(_)
\* The elements of a set in the order an iteration over it yields them.
SetToSeq(S) ==
    IF S = {} THEN <<>>
    ELSE LET x == CHOOSE y \in S : TRUE IN <<x>> \o SetToSeq(S \ {x})

SeqToSet(s) == {s[i] : i \in 1..Len(s)}

(***************************************************************************)
(* cairo/data_types.py: the type model.  Every type is a record            *)
(* [kind, name, types]; types is the ordered member list, each member      *)
(* [n |-> field name or "", t |-> type].                                   *)
(***************************************************************************)
Member(n, t) == [n |-> n, t |-> t]

UnknownType(name) == [kind |-> "unknown", name |-> name, types |-> <<>>]

FeltType == [kind |-> "felt", name |-> "", types |-> <<>>]

TupleType(ts) == [kind |-> "tuple", name |-> "", types |-> [i \in 1..Len(ts) |-> Member("", ts[i])]]

NamedTupleTuple(ms) == [kind |-> "named", name |-> "", types |-> ms]

ArrayType(inner_type) == [kind |-> "array", name |-> "", types |-> <<Member("", inner_type)>>]

StructType(name, ms) == [kind |-> "struct", name |-> name, types |-> ms]

\* Python's None, which FeltType._resolve returns (its body is "pass").
NoneValue == [kind |-> "None", name |-> "", types |-> <<>>]

KnownKinds == {"felt", "tuple", "named", "array", "struct"}

\* dependencies(): the immediate children, in order.
dependencies(t) == [i \in 1..Len(t.types) |-> t.types[i].t]

\* set(*args): no argument gives the empty set; one argument must be an
\* iterable, and an UnknownType is not; two or more are a TypeError.
set_call(args) ==
    IF Len(args) = 0 THEN Ok({})
    ELSE Raise("TypeError", "set")

RECURSIVE unknown_dependencies(_)
RECURSIVE transitive_unknown(_, _)
\* The comprehension "for t in deps for u in t.unknown_dependencies if
\* isinstance(t, KnownType)", from deps[i] on: t.unknown_dependencies is
\* evaluated before the isinstance filter, and only a KnownType has it.
transitive_unknown(deps, i) ==
    IF i > Len(deps) THEN Ok(<<>>)
    ELSE LET t == deps[i] IN
         IF t.kind \notin KnownKinds
         THEN Raise("AttributeError", "unknown_dependencies")
         ELSE LET u == unknown_dependencies(t) IN
              IF ~u.ok THEN u
              ELSE LET rest == transitive_unknown(deps, i + 1) IN
                   IF ~rest.ok THEN rest
                   ELSE Ok(SetToSeq(u.val) \o rest.val)

\* KnownType.unknown_dependencies
unknown_dependencies(t) ==
    LET deps == dependencies(t)
        directly_unknown == SelectSeq(deps, LAMBDA d : d.kind = "unknown")
        transitive == transitive_unknown(deps, 1)
    IN  IF ~transitive.ok THEN transitive
        ELSE set_call(directly_unknown \o transitive.val)

\* bool(x) of a set
bool(S) == S # {}

\* KnownType.is_resolved
is_resolved(t) ==
    LET u == unknown_dependencies(t) IN
    IF ~u.ok THEN u ELSE Ok(bool(u.val))

\* UnknownType.resolve
UnknownType_resolve(t, resolved_types) ==
    IF t.name \in DOMAIN resolved_types
    THEN Ok(resolved_types[t.name])
    ELSE Raise("KeyError", t.name)

RECURSIVE KnownType_resolve(_, _)
RECURSIVE resolve_members(_, _, _)
\* [t.resolve(resolved_types) for t in types], keeping the member names.
resolve_members(ms, i, resolved_types) ==
    IF i > Len(ms) THEN Ok(<<>>)
    ELSE LET t == ms[i].t
             r == IF t.kind = "unknown" THEN UnknownType_resolve(t, resolved_types)
                  ELSE IF t.kind \in KnownKinds THEN KnownType_resolve(t, resolved_types)
                  ELSE Raise("AttributeError", "resolve")
         IN  IF ~r.ok THEN r
             ELSE LET rest == resolve_members(ms, i + 1, resolved_types) IN
                  IF ~rest.ok THEN rest
                  ELSE Ok(<<Member(ms[i].n, r.val)>> \o rest.val)

\* KnownType._resolve, per subclass
type_resolve(t, resolved_types) ==
    IF t.kind = "felt" THEN Ok(NoneValue)
    ELSE LET ms == resolve_members(t.types, 1, resolved_types) IN
         IF ~ms.ok THEN ms ELSE Ok([t EXCEPT !.types = ms.val])

\* KnownType.resolve
KnownType_resolve(t, resolved_types) ==
    LET r == is_resolved(t) IN
    IF ~r.ok THEN r
    ELSE IF r.val THEN Ok(t)
    ELSE type_resolve(t, resolved_types)

(***************************************************************************)
(* utils/abi/_structure_resolver.py                                        *)
(***************************************************************************)
StructNamesOf(structs) == {structs[i].name : i \in 1..Len(structs)}

StructNamed(structs, name) == structs[CHOOSE i \in 1..Len(structs) : structs[i].name = name]

RECURSIVE StructureResolver_init(_, _, _)
\* __init__: self.structs in insertion order, or the duplicate error.
StructureResolver_init(structs_seq, i, structs) ==
    IF i > Len(structs_seq) THEN Ok(structs)
    ELSE IF structs_seq[i].name \in StructNamesOf(structs)
         THEN Raise("ValueError", [what |-> "defined more than once", struct |-> structs_seq[i].name])
         ELSE StructureResolver_init(structs_seq, i + 1, Append(structs, structs_seq[i]))

assert_dependency_exists(structs, struct_name, dep_name) ==
    IF struct_name \notin StructNamesOf(structs)
    THEN Raise("ValueError", [what |-> "not defined", struct |-> struct_name, dep |-> dep_name])
    ELSE Ok(TRUE)

\* _assert_no_cycle with the comparison left out.
assert_no_cycle_skipped(structs, resolved) == Ok(TRUE)

assert_no_cycle(structs, resolved) ==
    IF Cardinality(DOMAIN resolved) # Len(structs)
    THEN Raise("ValueError", [what |-> "Cycle detected",
                              names |-> StructNamesOf(structs) \ DOMAIN resolved])
    ELSE Ok(TRUE)

\* dependant_on is a defaultdict(list): a missing key reads as [].
Waiting(dependant_on, name) ==
    IF name \in DOMAIN dependant_on THEN dependant_on[name] ELSE <<>>

RECURSIVE waiting_list(_, _, _, _, _)
\* Lines 42-44: check each dependency and put the struct on its waiting list.
waiting_list(structs, name, deps, j, dependant_on) ==
    IF j > Len(deps) THEN Ok(dependant_on)
    ELSE LET a == assert_dependency_exists(structs, name, deps[j].name) IN
         IF ~a.ok THEN a
         ELSE waiting_list(structs, name, deps, j + 1,
                  Put(dependant_on, deps[j].name, Append(Waiting(dependant_on, deps[j].name), name)))

RECURSIVE count_pass(_, _, _)
\* Lines 34-44: the dependency-counting pass, from structs[i] on.
count_pass(structs, i, st) ==
    IF i > Len(structs) THEN Ok(st)
    ELSE LET struct == structs[i]
             name == struct.name
             r == is_resolved(struct)
         IN  IF ~r.ok THEN r
             ELSE IF r.val
             THEN count_pass(structs, i + 1,
                      [st EXCEPT !.resolvable_types = Append(@, name)])
             ELSE LET u == unknown_dependencies(struct)
                      w == waiting_list(structs, name, SetToSeq(u.val), 1, st.dependant_on)
                  IN  IF ~w.ok THEN w
                      ELSE count_pass(structs, i + 1,
                               [st EXCEPT !.unresolved_dependencies_left =
                                              Put(@, name, Cardinality(u.val)),
                                          !.dependant_on = w.val])

RECURSIVE notify(_, _, _)
\* Lines 53-57: decrement the counter of each struct waiting for a resolved one.
notify(dependents, j, st) ==
    IF j > Len(dependents) THEN st
    ELSE LET dependent == dependents[j]
             left == st.unresolved_dependencies_left[dependent] - 1
             st1 == [st EXCEPT !.unresolved_dependencies_left = Put(@, dependent, left)]
         IN  notify(dependents, j + 1,
                 IF left = 0
                 THEN [st1 EXCEPT !.resolvable_types = Append(@, dependent)]
                 ELSE st1)

RECURSIVE resolve_loop(_, _)
\* Lines 47-57: pop a resolvable struct, resolve it, wake its dependents.
\* val is the state the loop ended in or raised in.  moments is not in the
\* code: it keeps, for each pop, the name popped and the resolved names and
\* the counters at that moment, for stating properties of the run.
resolve_loop(structs, st) ==
    IF st.resolvable_types = <<>> THEN Ok(st)
    ELSE LET n == Len(st.resolvable_types)
             struct_name == st.resolvable_types[n]
             popped == [st EXCEPT !.resolvable_types = SubSeq(@, 1, n - 1),
                                  !.moments = Append(@, [name |-> struct_name,
                                                         resolved |-> DOMAIN st.resolved,
                                                         left |-> st.unresolved_dependencies_left])]
             r == KnownType_resolve(StructNamed(structs, struct_name), st.resolved)
         IN  IF ~r.ok THEN [r EXCEPT !.val = popped]
             ELSE resolve_loop(structs,
                      notify(Waiting(st.dependant_on, struct_name), 1,
                          [popped EXCEPT !.resolved = Put(@, struct_name, r.val)]))

\* Lines 28-32: the state resolve() starts with.
resolve_start ==
    [unresolved_dependencies_left |-> EmptyDict,
     dependant_on |-> EmptyDict,
     resolvable_types |-> <<>>,
     resolved |-> EmptyDict,
     moments |-> <<>>]

\* StructureResolver.resolve on self.structs
StructureResolver_resolve(structs) ==
    LET c == count_pass(structs, 1, resolve_start)
    IN  IF ~c.ok THEN c
        ELSE LET l == resolve_loop(structs, c.val) IN
             IF ~l.ok THEN [l EXCEPT !.val = <<>>]
             ELSE LET a == assert_no_cycle(structs, l.val.resolved) IN
                  IF ~a.ok THEN a ELSE Ok(l.val.resolved)

\* StructureResolver(structs_seq).resolve()
ResolveStructs(structs_seq) ==
    LET s == StructureResolver_init(structs_seq, 1, <<>>) IN
    IF ~s.ok THEN s ELSE StructureResolver_resolve(s.val)

(***************************************************************************)
(* utils/data_transformer/types/CairoType.py: the codec runtime.           *)
(*                                                                         *)
(* Python values are records [k, n, s, keys, items]: an int n, a str (a    *)
(* short text of character codes s, or a dict key named keys[1]), a list   *)
(* or tuple of items, a dict or named tuple of keys and items, None.       *)
(***************************************************************************)
PyValue(k, n, s, keys, items) == [k |-> k, n |-> n, s |-> s, keys |-> keys, items |-> items]

PyNone == PyValue("None", 0, <<>>, <<>>, <<>>)

PyInt(n) == PyValue("int", n, <<>>, <<>>, <<>>)

PyStr(s) == PyValue("str", 0, s, <<>>, <<>>)

PyKey(name) == PyValue("str", 0, <<>>, <<name>>, <<>>)

PyList(items) == PyValue("list", 0, <<>>, <<>>, items)

PyTuple(items) == PyValue("tuple", 0, <<>>, <<>>, items)

PyDict(keys, items) == PyValue("dict", 0, <<>>, keys, items)

\* An instance of a collections.namedtuple class.
PyNamedTuple(keys, items) == PyValue("namedtuple", 0, <<>>, keys, items)

\* A WrappedNamedTuple: it is no tuple and has no __len__.
PyWrapped(keys, items) == PyValue("wrapped", 0, <<>>, keys, items)

\* typing.List, which ArrayTransformer.from_python hands to enumerate().
typing_List == PyValue("typing.List", 0, <<>>, <<>>, <<>>)

\* The width of one limb of a 256-bit integer: 128 in the code (lines 124
\* and 130).  TLC's integers have 32 bits, so the model runs the same
\* arithmetic on narrower limbs; every range below is derived from it.
LimbBits == 6

\* 2**128
LIMB == 2 ^ LimbBits

\* 2**256
UINT256_BOUND == LIMB * LIMB

\* The field-element modulus, 2**251 + 17 * 2**192 + 1 in cairo/felt.py; at
\* the model's width the middle term cannot be kept below 2**256.
FIELD_PRIME == 2 ^ (2 * LimbBits - 5) + 1

\* The bits of one character of a short text: 8 in cairo/felt.py.
CharBits == 2

\* 31 in cairo/felt.py: the longest text whose bytes fit below the modulus.
MAX_SHORTSTRING_LENGTH == (2 * LimbBits - 5) \div CharBits

\* The ASCII characters are the lower half of the byte values.
IsAscii(c) == 0 <= c /\ c < 2 ^ (CharBits - 1)

\* Exceptions are records [type, detail, at]: detail is the message as the
\* sequence of its pieces, at is the namespace stack where it was first
\* raised (kept for stating properties; the code has no such field).
CairoOk(v, ctx) == [ok |-> TRUE, err |-> [type |-> "", detail |-> <<>>, at |-> <<>>], val |-> v, ctx |-> ctx]

CairoRaise(type, detail, ctx) ==
    [ok |-> FALSE,
     err |-> [type |-> type, detail |-> detail, at |-> ctx.namespace_stack],
     val |-> PyNone, ctx |-> ctx]

\* "except <handler>" catches an exception of type <type>: the codec's
\* exception classes are unrelated to each other and to the builtin ones.
Catches(handler, type) == type = handler

\* cairo_vm_range_check
cairo_vm_range_check(value) == 0 <= value /\ value < FIELD_PRIME

\* uint256_range_check
uint256_range_check(value) == 0 <= value /\ value < UINT256_BOUND

RECURSIVE from_bytes_big(_)
\* int.from_bytes(text_bytes, "big")
from_bytes_big(s) ==
    IF s = <<>> THEN 0
    ELSE from_bytes_big(SubSeq(s, 1, Len(s) - 1)) * (2 ^ CharBits) + s[Len(s)]

\* encode_shortstring
encode_shortstring(s, ctx) ==
    IF Len(s) > MAX_SHORTSTRING_LENGTH
    THEN CairoRaise("ValueError", <<"Shortstring cannot be longer than ", ToString(MAX_SHORTSTRING_LENGTH)>>, ctx)
    ELSE IF \E i \in 1..Len(s) : ~IsAscii(s[i])
    THEN CairoRaise("ValueError", <<"Expected an ascii string.">>, ctx)
    ELSE CairoOk(from_bytes_big(s), ctx)

\* construct_result_object
construct_result_object(keys, items) == PyWrapped(keys, items)

RECURSIVE Join(_)
\* "".join(parts)
Join(parts) == IF parts = <<>> THEN "" ELSE Head(parts) \o Join(Tail(parts))

\* CairoDataReader.remaining_len
remaining_len(ctx) == Len(ctx.data) - ctx.position

\* CairoDataReader.consume: val is the slice, a sequence of integers.
consume(ctx, size) ==
    IF size > remaining_len(ctx)
    THEN CairoRaise("ValueError",
             <<"Requested ", ToString(size), " elements, ", ToString(remaining_len(ctx)), " available.">>, ctx)
    ELSE [CairoOk(PyNone, [ctx EXCEPT !.position = @ + size])
              EXCEPT !.val = SubSeq(ctx.data, ctx.position + 1, ctx.position + size)]

\* TransformContext.nest, entering: the segment is pushed.
nest_enter(ctx, name) == [ctx EXCEPT !.namespace_stack = Append(@, name)]

\* TransformContext.nest with the pop after the body instead of in a
\* "finally": a body that raises leaves its segment on the stack.
nest_exit_pop_on_success(r) ==
    LET stack == r.ctx.namespace_stack
        popped == [r.ctx EXCEPT !.namespace_stack = SubSeq(stack, 1, Len(stack) - 1)]
    IN  IF ~r.ok /\ Catches("InvalidTypeException", r.err.type)
        THEN [r EXCEPT !.err.detail = <<"Error at [", Join(stack), "]. ">> \o @]
        ELSE IF ~r.ok THEN r
        ELSE [r EXCEPT !.ctx = popped]

\* TransformContext.nest, leaving with the body's outcome r: an
\* InvalidTypeException is replaced by one naming the whole stack, and the
\* segment is popped whatever happened.
nest_exit(r) ==
    LET stack == r.ctx.namespace_stack
        popped == [r.ctx EXCEPT !.namespace_stack = SubSeq(stack, 1, Len(stack) - 1)]
    IN  IF ~r.ok /\ Catches("InvalidTypeException", r.err.type)
        THEN [r EXCEPT !.err.detail = <<"Error at [", Join(stack), "]. ">> \o @,
                       !.ctx = popped]
        ELSE [r EXCEPT !.ctx = popped]

\* f"[{index}]" and f"[{name}]"
IndexSegment(index) == "[" \o ToString(index) \o "]"

KeySegment(name) == "[" \o name \o "]"

(***************************************************************************)
(* Codecs are records [kind, types], types the ordered [n, t] members.     *)
(***************************************************************************)
FeltTransformer == [kind |-> "felt", types |-> <<>>]

Uint256Transformer == [kind |-> "uint256", types |-> <<>>]

TupleTransformer(ts) == [kind |-> "tuple", types |-> [i \in 1..Len(ts) |-> Member("", ts[i])]]

NamedTupleTransformer(ms) == [kind |-> "named", types |-> ms]

ArrayTransformer(inner_transformer) == [kind |-> "array", types |-> <<Member("", inner_transformer)>>]

StructTransformer(ms) == [kind |-> "struct", types |-> ms]

\* FeltTransformer.to_python
FeltTransformer_to_python(ctx) ==
    LET c == consume(ctx, 1) IN
    IF ~c.ok THEN c
    ELSE IF ~cairo_vm_range_check(c.val[1])
         THEN CairoRaise("ValueError", <<"Felt is expected to be in range">>, c.ctx)
         ELSE CairoOk(PyInt(c.val[1]), c.ctx)

\* Uint256Transformer.to_python with the two limbs taken in the other order.
Uint256Transformer_to_python_swapped(ctx) ==
    LET c == consume(ctx, 2) IN
    IF ~c.ok THEN c
    ELSE LET low == c.val[2]
             high == c.val[1]
             value == high * LIMB + low
         IN  IF ~uint256_range_check(value)
             THEN CairoRaise("ValueError", <<"Uint256 is expected to be in range">>, c.ctx)
             ELSE CairoOk(PyInt(value), c.ctx)

\* Uint256Transformer.to_python
Uint256Transformer_to_python(ctx) ==
    LET c == consume(ctx, 2) IN
    IF ~c.ok THEN c
    ELSE LET low == c.val[1]
             high == c.val[2]
             value == high * LIMB + low
         IN  IF ~uint256_range_check(value)
             THEN CairoRaise("ValueError", <<"Uint256 is expected to be in range">>, c.ctx)
             ELSE CairoOk(PyInt(value), c.ctx)

\* tuple(*result): no argument gives (); one argument is iterated (a list,
\* a tuple or a WrappedNamedTuple yields its items, a dict its keys, an int
\* is not iterable); two or more are a TypeError.
tuple_call(result, ctx) ==
    IF Len(result) = 0 THEN CairoOk(PyTuple(<<>>), ctx)
    ELSE IF Len(result) > 1
    THEN CairoRaise("TypeError", <<"tuple expected at most 1 argument">>, ctx)
    ELSE LET x == result[1] IN
         IF x.k \in {"list", "tuple", "namedtuple", "wrapped"} THEN CairoOk(PyTuple(x.items), ctx)
         ELSE IF x.k = "dict" THEN CairoOk(PyTuple([i \in 1..Len(x.keys) |-> PyKey(x.keys[i])]), ctx)
         ELSE CairoRaise("TypeError", <<"object is not iterable">>, ctx)

RECURSIVE to_python(_, _)
RECURSIVE decode_members(_, _, _, _, _)
\* The member loops of Tuple/NamedTuple/StructTransformer.to_python: member
\* ms[i] under its own nest scope; val is the list of decoded members.
decode_members(ms, i, ctx, result, by_index) ==
    IF i > Len(ms) THEN [CairoOk(PyNone, ctx) EXCEPT !.val = result]
    ELSE LET seg == IF by_index THEN IndexSegment(i - 1) ELSE KeySegment(ms[i].n)
             r == nest_exit(to_python(ms[i].t, nest_enter(ctx, seg)))
         IN  IF ~r.ok THEN r
             ELSE decode_members(ms, i + 1, r.ctx, Append(result, r.val), by_index)

RECURSIVE decode_items(_, _, _, _, _)
\* The loop of ArrayTransformer.to_python: "for index in range(size)".
decode_items(inner_transformer, index, size, ctx, result) ==
    IF index >= size THEN CairoOk(PyList(result), ctx)
    ELSE LET r == nest_exit(to_python(inner_transformer, nest_enter(ctx, IndexSegment(index)))) IN
         IF ~r.ok THEN r
         ELSE decode_items(inner_transformer, index + 1, size, r.ctx, Append(result, r.val))

\* TupleTransformer.to_python
TupleTransformer_to_python(types, ctx) ==
    LET r == decode_members(types, 1, ctx, <<>>, TRUE) IN
    IF ~r.ok THEN r ELSE tuple_call(r.val, r.ctx)

\* NamedTupleTransformer.to_python
NamedTupleTransformer_to_python(types, ctx) ==
    LET r == decode_members(types, 1, ctx, <<>>, FALSE) IN
    IF ~r.ok THEN r
    ELSE CairoOk(construct_result_object([i \in 1..Len(types) |-> types[i].n], r.val), r.ctx)

\* ArrayTransformer.to_python
ArrayTransformer_to_python(inner_transformer, ctx) ==
    LET c == nest_exit(consume(nest_enter(ctx, ".len"), 1)) IN
    IF ~c.ok THEN c
    ELSE decode_items(inner_transformer, 0, c.val[1], c.ctx, <<>>)

\* StructTransformer.to_python
StructTransformer_to_python(transformers, ctx) ==
    LET r == decode_members(transformers, 1, ctx, <<>>, FALSE) IN
    IF ~r.ok THEN r
    ELSE CairoOk(PyDict([i \in 1..Len(transformers) |-> transformers[i].n], r.val), r.ctx)

\* Transformer.to_python, dispatched on the codec's class
to_python(t, ctx) ==
    CASE t.kind = "felt" -> FeltTransformer_to_python(ctx)
      [] t.kind = "uint256" -> Uint256Transformer_to_python(ctx)
      [] t.kind = "tuple" -> TupleTransformer_to_python(t.types, ctx)
      [] t.kind = "named" -> NamedTupleTransformer_to_python(t.types, ctx)
      [] t.kind = "array" -> ArrayTransformer_to_python(t.types[1].t, ctx)
      [] t.kind = "struct" -> StructTransformer_to_python(t.types, ctx)

(***************************************************************************)
(* Python's dynamic operations on the value handed to an encoder.          *)
(***************************************************************************)
\* len(value) is defined
HasLen(value) == value.k \in {"str", "list", "tuple", "dict", "namedtuple"}

\* len(value)
PyLen(value) == IF value.k = "str" THEN Len(value.s) ELSE Len(value.items)

\* iter(value): val is the sequence of what the iteration yields.
Iterate(value, ctx) ==
    IF value.k \in {"list", "tuple", "namedtuple", "wrapped"}
    THEN [CairoOk(PyNone, ctx) EXCEPT !.val = value.items]
    ELSE IF value.k = "dict"
    THEN [CairoOk(PyNone, ctx) EXCEPT !.val = [i \in 1..Len(value.keys) |-> PyKey(value.keys[i])]]
    ELSE IF value.k = "str"
    THEN [CairoOk(PyNone, ctx) EXCEPT !.val = [i \in 1..Len(value.s) |-> PyStr(<<value.s[i]>>)]]
    ELSE CairoRaise("TypeError", <<"object is not iterable">>, ctx)

\* value[index] for an integer index >= 0
GetIndex(value, index, ctx) ==
    IF value.k \in {"list", "tuple", "namedtuple", "wrapped"}
    THEN IF index < Len(value.items) THEN CairoOk(value.items[index + 1], ctx)
         ELSE CairoRaise("IndexError", <<"index out of range">>, ctx)
    ELSE IF value.k = "str"
    THEN IF index < Len(value.s) THEN CairoOk(PyStr(<<value.s[index + 1]>>), ctx)
         ELSE CairoRaise("IndexError", <<"string index out of range">>, ctx)
    ELSE IF value.k = "dict" THEN CairoRaise("KeyError", <<ToString(index)>>, ctx)
    ELSE CairoRaise("TypeError", <<"object is not subscriptable">>, ctx)

\* value[name] for a str key
GetKey(value, name, ctx) ==
    IF value.k = "dict"
    THEN IF \E i \in 1..Len(value.keys) : value.keys[i] = name
         THEN CairoOk(value.items[CHOOSE i \in 1..Len(value.keys) : value.keys[i] = name], ctx)
         ELSE CairoRaise("KeyError", <<name>>, ctx)
    ELSE CairoRaise("TypeError", <<"indices must be integers">>, ctx)

\* "name in value": val is the boolean.
Contains(value, name, ctx) ==
    IF value.k = "dict"
    THEN [CairoOk(PyNone, ctx) EXCEPT !.val = \E i \in 1..Len(value.keys) : value.keys[i] = name]
    ELSE IF value.k \in {"list", "tuple", "namedtuple", "wrapped"}
    THEN [CairoOk(PyNone, ctx) EXCEPT !.val = \E i \in 1..Len(value.items) : value.items[i] = PyKey(name)]
    ELSE IF value.k = "str"
    THEN [CairoOk(PyNone, ctx) EXCEPT !.val = FALSE]
    ELSE CairoRaise("TypeError", <<"argument is not iterable">>, ctx)

\* NamedTupleTransformer.is_namedtuple
is_namedtuple(value) == value.k = "namedtuple"

\* FeltTransformer.from_python without the range check of an integer.
FeltTransformer_from_python_unchecked(ctx, value) ==
    IF value.k = "str"
    THEN LET e == encode_shortstring(value.s, ctx) IN
         IF ~e.ok THEN e ELSE [e EXCEPT !.val = <<e.val>>]
    ELSE IF value.k # "int"
    THEN CairoRaise("InvalidTypeException", <<"should be int.">>, ctx)
    ELSE [CairoOk(PyNone, ctx) EXCEPT !.val = <<value.n>>]

\* FeltTransformer.from_python
FeltTransformer_from_python(ctx, value) ==
    IF value.k = "str"
    THEN LET e == encode_shortstring(value.s, ctx) IN
         IF ~e.ok THEN e ELSE [e EXCEPT !.val = <<e.val>>]
    ELSE IF value.k # "int"
    THEN CairoRaise("InvalidTypeException", <<"should be int.">>, ctx)
    ELSE IF ~cairo_vm_range_check(value.n)
    THEN CairoRaise("ValueError", <<"Felt is expected to be in range">>, ctx)
    ELSE [CairoOk(PyNone, ctx) EXCEPT !.val = <<value.n>>]

\* Uint256Transformer.from_python; the range check compares the value with
\* integers, which is a TypeError for anything but a number.
Uint256Transformer_from_python(ctx, value) ==
    IF value.k # "int"
    THEN CairoRaise("TypeError", <<"'<=' not supported">>, ctx)
    ELSE IF ~uint256_range_check(value.n)
    THEN CairoRaise("ValueError", <<"Uint256 is expected to be in range">>, ctx)
    ELSE [CairoOk(PyNone, ctx) EXCEPT !.val = <<value.n % LIMB, value.n \div LIMB>>]

RECURSIVE from_python(_, _, _)
RECURSIVE encode_members(_, _, _, _, _, _)
\* The member loops of Tuple/NamedTuple/StructTransformer.from_python: under
\* the member's nest scope the member's value is fetched from the input
\* (by position, by name, or by name after the "not provided" test) and
\* encoded; val is the flat output so far.
encode_members(ms, i, ctx, value, result, mode) ==
    IF i > Len(ms) THEN [CairoOk(PyNone, ctx) EXCEPT !.val = result]
    ELSE LET seg == IF mode = "tuple" THEN IndexSegment(i - 1) ELSE KeySegment(ms[i].n)
             inner == nest_enter(ctx, seg)
             has == IF mode = "struct" THEN Contains(value, ms[i].n, inner)
                    ELSE [CairoOk(PyNone, inner) EXCEPT !.val = TRUE]
             item == IF ~has.ok THEN has
                     ELSE IF ~has.val THEN CairoRaise("InvalidValueException", <<"not provided.">>, inner)
                     ELSE IF mode = "tuple" THEN GetIndex(value, i - 1, inner)
                     ELSE GetKey(value, ms[i].n, inner)
             body == IF ~item.ok THEN item ELSE from_python(ms[i].t, inner, item.val)
             r == nest_exit(body)
         IN  IF ~r.ok THEN r
             ELSE encode_members(ms, i + 1, r.ctx, value, result \o r.val, mode)

RECURSIVE encode_items(_, _, _, _, _)
\* The loop of ArrayTransformer.from_python over what enumerate() yields:
\* the loop variable shadows the input, so the element itself is indexed.
encode_items(inner_transformer, elements, index, ctx, result) ==
    IF index >= Len(elements) THEN [CairoOk(PyNone, ctx) EXCEPT !.val = result]
    ELSE LET inner == nest_enter(ctx, IndexSegment(index))
             item == GetIndex(elements[index + 1], index, inner)
             body == IF ~item.ok THEN item ELSE from_python(inner_transformer, inner, item.val)
             r == nest_exit(body)
         IN  IF ~r.ok THEN r
             ELSE encode_items(inner_transformer, elements, index + 1, r.ctx, result \o r.val)

\* TupleTransformer.from_python
TupleTransformer_from_python(types, ctx, value) ==
    IF ~HasLen(value) THEN CairoRaise("TypeError", <<"object has no len()">>, ctx)
    ELSE IF PyLen(value) # Len(types)
    THEN CairoRaise("InvalidValueException",
             <<"Length mismatch: ", ToString(PyLen(value)), " != ", ToString(Len(types)), ".">>, ctx)
    ELSE encode_members(types, 1, ctx, value, <<>>, "tuple")

\* NamedTupleTransformer.from_python
NamedTupleTransformer_from_python(types, ctx, value) ==
    IF value.k # "dict" /\ ~is_namedtuple(value)
    THEN CairoRaise("InvalidValueException", <<"must be dict or NamedTuple">>, ctx)
    ELSE encode_members(types, 1, ctx, PyDict(value.keys, value.items), <<>>, "named")

\* ArrayTransformer.from_python
ArrayTransformer_from_python(inner_transformer, ctx, value) ==
    IF ~HasLen(value) THEN CairoRaise("TypeError", <<"object has no len()">>, ctx)
    ELSE LET elements == Iterate(typing_List, ctx) IN
         IF ~elements.ok THEN elements
         ELSE encode_items(inner_transformer, elements.val, 0, ctx, <<PyLen(value)>>)

\* StructTransformer.from_python
StructTransformer_from_python(transformers, ctx, value) ==
    encode_members(transformers, 1, ctx, value, <<>>, "struct")

\* Transformer.from_python, dispatched on the codec's class
from_python(t, ctx, value) ==
    CASE t.kind = "felt" -> FeltTransformer_from_python(ctx, value)
      [] t.kind = "uint256" -> Uint256Transformer_from_python(ctx, value)
      [] t.kind = "tuple" -> TupleTransformer_from_python(t.types, ctx, value)
      [] t.kind = "named" -> NamedTupleTransformer_from_python(t.types, ctx, value)
      [] t.kind = "array" -> ArrayTransformer_from_python(t.types[1].t, ctx, value)
      [] t.kind = "struct" -> StructTransformer_from_python(t.types, ctx, value)

\* The context a caller builds for one call: TransformContext declares
\* reader and namespace_stack and leaves setting them to the caller.
NewContext(data) == [data |-> data, position |-> 0, namespace_stack |-> <<>>]

\* One top-level decode of a flat sequence, and one top-level encode.
Decode(t, data) == to_python(t, NewContext(data))

Encode(t, value) == from_python(t, NewContext(<<>>), value)

(***************************************************************************)
(* StructureRepository, the second resolver (CairoType.py lines 269-373).  *)
(* It reads struct definitions parsed by parse_abi_struct, whose result    *)
(* carries name, types and unknown_dependencies (the names it refers to).  *)
(***************************************************************************)
RECURSIVE UnresolvedNames(_)
\* The names of the unresolved references reachable from a type.
UnresolvedNames(t) ==
    IF t.kind = "unknown" THEN {t.name}
    ELSE UNION {UnresolvedNames(t.types[i].t) : i \in 1..Len(t.types)}

uint256_type == StructType("Uint256", <<Member("low", FeltType), Member("high", FeltType)>>)

\* StructureRepository._is_uint256_struct
is_uint256_struct(parsed) == parsed = uint256_type

\* StructureRepository._resolve_struct.  "for name, type in parsed.types"
\* iterates the keys of an ordered dict and unpacks each key, a str, into
\* two names: a key of two characters binds type to a one-character str,
\* which _resolve rejects; any other key cannot be unpacked.
resolve_struct(parsed, resolved) ==
    IF is_uint256_struct(parsed) THEN Ok(Uint256Transformer)
    ELSE IF parsed.types = <<>> THEN Ok(StructTransformer(<<>>))
    ELSE IF Len(parsed.types[1].n) = 2 THEN Raise("ValueError", [what |-> "XD"])
    ELSE Raise("ValueError", [what |-> "values to unpack"])

RECURSIVE repository_waiting(_, _, _, _)
\* Lines 294-295: put the struct on the waiting list of each dependency.
repository_waiting(name, deps, j, dependant_on) ==
    IF j > Len(deps) THEN dependant_on
    ELSE repository_waiting(name, deps, j + 1,
             Put(dependant_on, deps[j], Append(Waiting(dependant_on, deps[j]), name)))

RECURSIVE repository_parse(_, _, _)
\* Lines 284-298: the pass over the ABI's struct entries, from entry i on.
repository_parse(structs_list, i, st) ==
    IF i > Len(structs_list) THEN Ok(st)
    ELSE LET parsed == structs_list[i]
             name == parsed.name
             deps == UnresolvedNames(parsed)
         IN  IF name \in DOMAIN st.transformers
             THEN Raise("ValueError", [what |-> "defined more than once", struct |-> name])
             ELSE repository_parse(structs_list, i + 1,
                      [st EXCEPT !.structs = Put(@, name, parsed),
                                 !.unresolved_dependencies_left = Put(@, name, Cardinality(deps)),
                                 !.dependant_on = repository_waiting(name, SetToSeq(deps), 1, @),
                                 !.resolvable_types = IF deps = {} THEN Append(@, name) ELSE @])

RECURSIVE repository_loop(_)
\* Lines 300-309: the worklist loop (resolvable_structs in the code is the
\* field resolvable_types here, so that both resolvers share notify).
repository_loop(st) ==
    IF st.resolvable_types = <<>> THEN Ok(st)
    ELSE LET n == Len(st.resolvable_types)
             struct_name == st.resolvable_types[n]
             r == resolve_struct(st.structs[struct_name], st.resolved)
         IN  IF ~r.ok THEN r
             ELSE repository_loop(
                      notify(Waiting(st.dependant_on, struct_name), 1,
                          [st EXCEPT !.resolvable_types = SubSeq(@, 1, n - 1),
                                     !.resolved = Put(@, struct_name, r.val)]))

\* Lines 311-313: the worklist has drained; leftover structs are passed over.
repository_check(st) == Ok(st.resolved)

\* StructureRepository.__init__ on the ABI's struct entries
StructureRepository_init(structs_list) ==
    LET p == repository_parse(structs_list, 1,
                 [transformers |-> [k \in {"felt"} |-> FeltTransformer],
                  structs |-> EmptyDict,
                  dependant_on |-> EmptyDict,
                  unresolved_dependencies_left |-> EmptyDict,
                  resolvable_types |-> <<>>,
                  resolved |-> EmptyDict])
    IN  IF ~p.ok THEN p
        ELSE LET l == repository_loop(p.val) IN
             IF ~l.ok THEN l ELSE repository_check(l.val)

(***************************************************************************)
(* cairo/type_parser.py and utils/abi/abi_reader.py.  parse_type belongs   *)
(* to cairo-lang; a type string is represented by the syntax tree it       *)
(* parses to, a record [tag, name, is_named, members], each member         *)
(* [name, typ].                                                            *)
(***************************************************************************)
TypeFelt == [tag |-> "TypeFelt", name |-> "", is_named |-> FALSE, members |-> <<>>]

TypePointer(pointee) ==
    [tag |-> "TypePointer", name |-> "", is_named |-> FALSE,
     members |-> <<[name |-> "", typ |-> pointee]>>]

TypeIdentifier(name) == [tag |-> "TypeIdentifier", name |-> name, is_named |-> FALSE, members |-> <<>>]

TypeTuple(members, is_named) ==
    [tag |-> "TypeTuple", name |-> "", is_named |-> is_named, members |-> members]

\* One of the types the parser does not transform.
TypeCodeoffset == [tag |-> "TypeCodeoffset", name |-> "", is_named |-> FALSE, members |-> <<>>]

\* TypeParser(): defined_structs is None.
TypeParser_default == [given |-> FALSE, defined_structs |-> EmptyDict]

\* TypeParser(defined_structs)
TypeParser(defined_structs) == [given |-> TRUE, defined_structs |-> defined_structs]

RECURSIVE transform_cairo_lang_type(_, _)
RECURSIVE transform_members(_, _, _)
\* The comprehensions over cairo_type.members, from members[i] on.
transform_members(self, members, i) ==
    IF i > Len(members) THEN Ok(<<>>)
    ELSE LET r == transform_cairo_lang_type(self, members[i].typ) IN
         IF ~r.ok THEN r
         ELSE LET rest == transform_members(self, members, i + 1) IN
              IF ~rest.ok THEN rest
              ELSE Ok(<<Member(members[i].name, r.val)>> \o rest.val)

\* TypeParser._transform_cairo_lang_type.  The last line formats
\* cairo_type.__name__, which an instance does not have.
transform_cairo_lang_type(self, cairo_type) ==
    IF cairo_type.tag = "TypeFelt" THEN Ok(FeltType)
    ELSE IF cairo_type.tag = "TypePointer"
    THEN LET r == transform_cairo_lang_type(self, cairo_type.members[1].typ) IN
         IF ~r.ok THEN r ELSE Ok(ArrayType(r.val))
    ELSE IF cairo_type.tag = "TypeIdentifier"
    THEN IF self.given
         THEN IF cairo_type.name \notin DOMAIN self.defined_structs
              THEN Raise("ValueError", [what |-> "is not defined", struct |-> cairo_type.name])
              ELSE Ok(self.defined_structs[cairo_type.name])
         ELSE Ok(UnknownType(cairo_type.name))
    ELSE IF cairo_type.tag = "TypeTuple"
    THEN LET ms == transform_members(self, cairo_type.members, 1) IN
         IF ~ms.ok THEN ms
         ELSE IF cairo_type.is_named THEN Ok(NamedTupleTuple(ms.val))
         ELSE Ok(TupleType(dependencies([types |-> ms.val])))
    ELSE Raise("AttributeError", [what |-> "__name__"])

\* TypeParser.parse_inline_type, on the parsed type string
parse_inline_type(self, type_string) == transform_cairo_lang_type(self, type_string)

RECURSIVE sorted_by_offset(_)
\* sorted(members, key=lambda m: m["offset"]): a stable sort.
sorted_by_offset(members) ==
    IF members = <<>> THEN <<>>
    ELSE LET n == Len(members)
             last == members[n]
             front == sorted_by_offset(SubSeq(members, 1, n - 1))
             before == SelectSeq(front, LAMBDA m : m.offset <= last.offset)
             after == SelectSeq(front, LAMBDA m : m.offset > last.offset)
         IN  before \o <<last>> \o after

RECURSIVE parse_struct_members(_, _, _, _)
\* Lines 58-66: the loop of _parse_abi_struct, from ordered_members[i] on.
parse_struct_members(struct_name, ordered_members, i, members) ==
    IF i > Len(ordered_members) THEN Ok(members)
    ELSE LET member == ordered_members[i] IN
         IF \E k \in 1..Len(members) : members[k].n = member.name
         THEN Raise("ValueError", [what |-> "Field defined more than once",
                                   struct |-> struct_name, field |-> member.name])
         ELSE LET member_type == parse_inline_type(TypeParser_default, member.type) IN
              IF ~member_type.ok THEN member_type
              ELSE parse_struct_members(struct_name, ordered_members, i + 1,
                       Append(members, Member(member.name, member_type.val)))

\* Abi._parse_abi_struct
parse_abi_struct(struct) ==
    LET members == parse_struct_members(struct.name, sorted_by_offset(struct.members), 1, <<>>) IN
    IF ~members.ok THEN members ELSE Ok(StructType(struct.name, members.val))

RECURSIVE parse_members(_, _, _, _, _)
\* Abi._parse_members, from params[i] on
parse_members(entity_name, params, parser, i, members) ==
    IF i > Len(params) THEN Ok(members)
    ELSE LET param == params[i] IN
         IF \E k \in 1..Len(members) : members[k].n = param.name
         THEN Raise("ValueError", [what |-> "Parameter defined more than once",
                                   entity |-> entity_name, param |-> param.name])
         ELSE LET t == parse_inline_type(parser, param.type) IN
              IF ~t.ok THEN t
              ELSE parse_members(entity_name, params, parser, i + 1,
                       Append(members, Member(param.name, t.val)))

\* Abi._parse_abi_function
parse_abi_function(function, type_parser) ==
    LET inputs == parse_members(function.name, function.inputs, type_parser, 1, <<>>) IN
    IF ~inputs.ok THEN inputs
    ELSE LET outputs == parse_members(function.name, function.outputs, type_parser, 1, <<>>) IN
         IF ~outputs.ok THEN outputs
         ELSE Ok([name |-> function.name, inputs |-> inputs.val, outputs |-> outputs.val])

\* Abi._parse_event
parse_event(event, type_parser) ==
    LET data == parse_members(event.name, event.data, type_parser, 1, <<>>) IN
    IF ~data.ok THEN data ELSE Ok([name |-> event.name, data |-> data.val])

\* The entries of the ABI of one type, in the ABI's order.
EntriesOfType(abi, type) == SelectSeq(abi, LAMBDA entry : entry.type = type)

RECURSIVE struct_generator(_, _, _)
\* Lines 38-40: the generator StructureResolver.__init__ draws from.  It
\* parses an entry when the entry is asked for, so a struct entry that
\* cannot be parsed stops it after the entries before have been taken:
\* val is the structs yielded, err the exception that ended it.
struct_generator(entries, i, yielded) ==
    IF i > Len(entries) THEN Ok(yielded)
    ELSE LET struct == parse_abi_struct(entries[i]) IN
         IF ~struct.ok THEN [struct EXCEPT !.val = yielded]
         ELSE struct_generator(entries, i + 1, Append(yielded, struct.val))

RECURSIVE parse_entries(_, _, _, _, _)
\* Lines 42-51: a dict comprehension over the entries, from entries[i] on;
\* an entry whose name was seen before replaces the earlier one.
parse_entries(entries, i, type_parser, parsed, is_function) ==
    IF i > Len(entries) THEN Ok(parsed)
    ELSE LET r == IF is_function THEN parse_abi_function(entries[i], type_parser)
                  ELSE parse_event(entries[i], type_parser)
         IN  IF ~r.ok THEN r
             ELSE parse_entries(entries, i + 1, type_parser,
                      Put(parsed, entries[i].name, r.val), is_function)

\* Lines 38-40: StructureResolver(<generator>).resolve().  __init__ takes
\* the structs the generator yields, then the exception that ended the
\* generator, if any, comes out of it.
resolve_generated(generated, taken) ==
    IF ~taken.ok THEN taken
    ELSE IF ~generated.ok THEN [generated EXCEPT !.val = <<>>]
    ELSE StructureResolver_resolve(taken.val)

\* Lines 38-40
from_dict_structures(generated) ==
    resolve_generated(generated, StructureResolver_init(generated.val, 1, <<>>))

\* Lines 47-52: the events, then the Abi model.
from_dict_events(structures, functions, events) ==
    IF ~events.ok THEN events
    ELSE Ok([defined_structures |-> structures, functions |-> functions, events |-> events.val])

\* Lines 42-52, with the functions parsed
from_dict_functions(abi, structures, type_parser, functions) ==
    IF ~functions.ok THEN functions
    ELSE from_dict_events(structures, functions.val,
             parse_entries(EntriesOfType(abi, "event"), 1, type_parser, EmptyDict, FALSE))

\* Lines 41-52, with the outcome of the resolver
from_dict_entities(abi, structures) ==
    IF ~structures.ok THEN structures
    ELSE from_dict_functions(abi, structures.val, TypeParser(structures.val),
             parse_entries(EntriesOfType(abi, "function"), 1, TypeParser(structures.val),
                           EmptyDict, TRUE))

\* Abi.from_dict
Abi_from_dict(abi) ==
    from_dict_entities(abi,
        from_dict_structures(struct_generator(EntriesOfType(abi, "struct"), 1, <<>>)))

(***************************************************************************)
(* utils/wrapped_named_tuple.py.  A field name is the sequence of its      *)
(* pieces, the underscore a piece of its own: <<"_", "second">> is         *)
(* "_second".  A dict is a record [keys, items] in insertion order.        *)
(***************************************************************************)
Digits == {"0", "1", "2", "3", "4", "5", "6", "7", "8", "9"}

\* str.isidentifier
isidentifier(name) ==
    /\ name # <<>>
    /\ name[1] \notin Digits
    /\ \A i \in 1..Len(name) : name[i] # " "

\* keyword.iskeyword
iskeyword(name) == name \in {<<"class">>, <<"def">>, <<"if">>}

\* str.startswith("_")
startswith_underscore(name) == name # <<>> /\ name[1] = "_"

RECURSIVE namedtuple_rename(_, _, _)
\* collections.namedtuple(..., rename=True): a name that is no identifier,
\* is a keyword, begins with an underscore or was seen before is replaced
\* by the positional name "_<index>".  The result is the class's _fields.
namedtuple_rename(field_names, index, fields) ==
    IF index >= Len(field_names) THEN fields
    ELSE LET name == field_names[index + 1]
             seen == {field_names[k] : k \in 1..index}
         IN  namedtuple_rename(field_names, index + 1,
                 Append(fields,
                        IF \/ ~isidentifier(name)
                           \/ iskeyword(name)
                           \/ startswith_underscore(name)
                           \/ name \in seen
                        THEN <<"_", ToString(index)>>
                        ELSE name))

\* dict[key]
dict_get(d, key) ==
    IF \E i \in 1..Len(d.keys) : d.keys[i] = key
    THEN Ok(d.items[CHOOSE i \in 1..Len(d.keys) : d.keys[i] = key])
    ELSE Raise("KeyError", key)

\* WrappedNamedTuple.from_dict.  tuple_value is the named tuple, a record
\* [keys, items] of its class's fields and its values in field order.
WrappedNamedTuple_from_dict(result) ==
    LET fields == result.keys
        named_tuple_class == namedtuple_rename(fields, 0, <<>>)
        name_mapping == [keys |-> fields, items |-> named_tuple_class]
        dict_value == [keys |-> [i \in 1..Len(fields) |-> dict_get(name_mapping, fields[i]).val],
                       items |-> result.items]
        tuple_value == [keys |-> named_tuple_class,
                        items |-> [i \in 1..Len(named_tuple_class) |->
                                       dict_get(dict_value, named_tuple_class[i]).val]]
    IN  Ok([tuple_value |-> tuple_value, name_mapping |-> name_mapping, dict_value |-> dict_value])

\* WrappedNamedTuple.__eq__ with a tuple of values
WrappedNamedTuple_eq(self, other) == self.tuple_value.items = other

\* WrappedNamedTuple.__getitem__ with an index >= 0
WrappedNamedTuple_getitem(self, item) ==
    IF item < Len(self.tuple_value.items) THEN Ok(self.tuple_value.items[item + 1])
    ELSE Raise("IndexError", item)

\* The names the ordinary attribute lookup finds on a WrappedNamedTuple:
\* its three instance attributes, the names its class defines, and the
\* ones every object has.  __getattr__ is called for no such name.
OwnAttributes ==
    {<<"tuple", "_", "value">>, <<"name", "_", "mapping">>, <<"dict", "_", "value">>,
     <<"from", "_", "dict">>, <<"_", "asdict">>,
     <<"_", "_", "init", "_", "_">>, <<"_", "_", "eq", "_", "_">>,
     <<"_", "_", "getattr", "_", "_">>, <<"_", "_", "getitem", "_", "_">>,
     <<"_", "_", "iter", "_", "_">>, <<"_", "_", "str", "_", "_">>,
     <<"_", "_", "repr", "_", "_">>, <<"_", "_", "class", "_", "_">>,
     <<"_", "_", "dict", "_", "_">>}

\* WrappedNamedTuple.__getattr__
WrappedNamedTuple_getattr(self, item) ==
    LET key == dict_get(self.name_mapping, item) IN
    IF ~key.ok THEN key
    ELSE LET value == dict_get(self.tuple_value, key.val) IN
         IF ~value.ok THEN Raise("AttributeError", key.val) ELSE value

\* <result>.<item>: the ordinary lookup first, __getattr__ when it fails.
\* What the ordinary lookup finds is an object of the wrapper itself (its
\* named tuple, one of its dicts, a method), never a value of the mapping.
AttributeAccess(self, item) ==
    IF item \in OwnAttributes THEN Ok(PyValue("object", 0, <<>>, item, <<>>))
    ELSE WrappedNamedTuple_getattr(self, item)

\* WrappedNamedTuple._asdict
WrappedNamedTuple_asdict(self) ==
    [keys |-> self.name_mapping.keys,
     items |-> [i \in 1..Len(self.name_mapping.keys) |->
                    dict_get(self.dict_value, self.name_mapping.items[i]).val]]

(***************************************************************************)
(* Inputs of the model.                                                    *)
(***************************************************************************)
\* The longest struct list handed to a resolver.
MaxStructs == 2

\* The deepest nesting of a type handed to the type model's introspection.
MaxDepth == 2

StructNames == {"A", "B", "C"}

\* "Z" is referenced and never defined.
RefNames == StructNames \cup {"Z"}

\* The member types of the struct definitions handed to the resolvers, as
\* TypeParser() without defined_structs builds them: references are unknown.
MemberPool ==
    {FeltType, ArrayType(FeltType)}
    \cup {UnknownType(n) : n \in RefNames}
    \cup {ArrayType(UnknownType("A")), TupleType(<<FeltType, UnknownType("B")>>),
          NamedTupleTuple(<<Member("k", UnknownType("C"))>>)}

StructPool ==
    {uint256_type, StructType("C", <<>>)}
    \cup {StructType(n, <<Member("x", t)>>) : n \in StructNames, t \in MemberPool}
    \cup {StructType(n, <<Member("x", UnknownType(p[1])), Member("y", UnknownType(p[2]))>>) :
              n \in StructNames, p \in {<<"A", "B">>, <<"B", "C">>, <<"A", "C">>, <<"A", "A">>}}

RECURSIVE SeqsUpTo(_, _)
\* The sequences over S of length at most n.
SeqsUpTo(S, n) ==
    IF n = 0 THEN {<<>>}
    ELSE LET shorter == SeqsUpTo(S, n - 1) IN
         shorter \cup {Append(s, x) : s \in shorter, x \in S}

StructLists == SeqsUpTo(StructPool, MaxStructs)

RECURSIVE TypesOfDepth(_)
\* The type expressions of nesting depth at most d.
TypesOfDepth(d) ==
    IF d = 0 THEN {FeltType, UnknownType("A"), UnknownType("Z")}
    ELSE LET inner == TypesOfDepth(d - 1) IN
         inner
         \cup {ArrayType(t) : t \in inner}
         \cup {TupleType(<<FeltType, t>>) : t \in inner}
         \cup {NamedTupleTuple(<<Member("k", t)>>) : t \in inner}
         \cup {StructType("S", <<Member("x", t), Member("y", FeltType)>>) : t \in inner}
         \cup {TupleType(<<>>)}

KnownTypes == {t \in TypesOfDepth(MaxDepth) : t.kind \in KnownKinds}

\* The longest flat sequence handed to a decoder.
MaxData == 4

\* The longest list handed to an encoder.
MaxItems == 3

Codecs ==
    LET F == FeltTransformer
        U == Uint256Transformer
        Amount == StructTransformer(<<Member("amount", F)>>)
    IN  {F, U, ArrayTransformer(F), ArrayTransformer(Amount),
         TupleTransformer(<<>>), TupleTransformer(<<F>>), TupleTransformer(<<F, F>>),
         TupleTransformer(<<ArrayTransformer(F)>>), TupleTransformer(<<Amount>>),
         NamedTupleTransformer(<<Member("a", F), Member("b", F)>>),
         Amount,
         StructTransformer(<<Member("x", F), Member("y", U)>>),
         StructTransformer(<<Member("items", ArrayTransformer(Amount))>>)}

SmallInts == {-1, 0, 1, 2, 3, FIELD_PRIME}

LimbSamples ==
    {-1, 0, 1, 42, LIMB - 1, LIMB, LIMB + 1, FIELD_PRIME - 1, FIELD_PRIME, UINT256_BOUND - 1}

\* The flat sequences handed to a decoder.
DataLists ==
    SeqsUpTo(SmallInts, MaxData)
    \cup {<<3, 5, 7, 9>>}
    \cup {<<low, high>> : low \in LimbSamples, high \in LimbSamples}

IntSamples ==
    {-1, 0, 5, 7, 9, 42, LIMB + 42, FIELD_PRIME - 1, FIELD_PRIME,
     UINT256_BOUND - 1, UINT256_BOUND}

\* Short texts up to one character too long, and one that is not ASCII.
StrSamples ==
    SeqsUpTo({0, 2 ^ (CharBits - 1) - 1}, MAX_SHORTSTRING_LENGTH + 1)
    \cup {<<2 ^ (CharBits - 1)>>}

KeyLists ==
    {<<>>, <<"amount">>, <<"amount", "extra">>, <<"extra">>,
     <<"x", "y">>, <<"y", "x">>, <<"x">>, <<"x", "y", "extra">>,
     <<"a", "b">>, <<"b", "a">>, <<"a">>}

DictLeaves == {PyInt(5), PyInt(LIMB + 42), PyInt(FIELD_PRIME), PyNone}

AmountDicts == {PyDict(<<"amount">>, <<v>>) : v \in {PyInt(5), PyInt(FIELD_PRIME), PyNone}}

AmountLists == {PyList(items) : items \in SeqsUpTo(AmountDicts, MaxItems)}

\* The values handed to an encoder, whatever the codec: well-shaped ones
\* and ones of the wrong type, length or key set.
Values ==
    {PyNone}
    \cup {PyInt(n) : n \in IntSamples}
    \cup {PyStr(str) : str \in StrSamples}
    \cup {PyList(items) : items \in
              SeqsUpTo({PyInt(5), PyInt(7), PyInt(9), PyInt(FIELD_PRIME), PyNone}, MaxItems)}
    \cup AmountLists
    \cup {PyTuple(items) : items \in
              SeqsUpTo({PyInt(5), PyInt(FIELD_PRIME), PyNone, PyList(<<PyInt(5)>>),
                        PyDict(<<"amount">>, <<PyInt(5)>>)}, 2)}
    \cup UNION {{PyDict(ks, vs) : vs \in [1..Len(ks) -> DictLeaves]} : ks \in KeyLists}
    \cup {PyNamedTuple(<<"a", "b">>, vs) : vs \in [1..2 -> DictLeaves]}
    \cup {PyWrapped(<<"a", "b">>, vs) : vs \in [1..2 -> DictLeaves]}
    \cup {PyDict(<<"items">>, <<l>>) : l \in AmountLists}

\* The longest ABI handed to Abi.from_dict.
MaxEntries == 3

\* TypedMemberDict and StructMemberDict (a parameter has no offset; 0 here).
TypedMember(name, type, offset) == [name |-> name, type |-> type, offset |-> offset]

\* StructDict, FunctionDict and EventDict, as records of one shape.
StructEntry(name, members) ==
    [type |-> "struct", name |-> name, members |-> members,
     inputs |-> <<>>, outputs |-> <<>>, data |-> <<>>]

FunctionEntry(name, inputs, outputs) ==
    [type |-> "function", name |-> name, members |-> <<>>,
     inputs |-> inputs, outputs |-> outputs, data |-> <<>>]

EventEntry(name, data) ==
    [type |-> "event", name |-> name, members |-> <<>>,
     inputs |-> <<>>, outputs |-> <<>>, data |-> data]

\* Struct entries: plain, referencing, with members listed out of offset
\* order, and with a field defined twice.  Function and event entries:
\* without references, referencing a defined or an undefined struct, with a
\* parameter defined twice, and with a type the parser does not know.
AbiEntries ==
    {StructEntry("A", <<TypedMember("x", TypeFelt, 0)>>),
     StructEntry("B", <<TypedMember("a", TypeIdentifier("A"), 0)>>),
     StructEntry("B", <<TypedMember("b", TypeFelt, 1),
                        TypedMember("a", TypePointer(TypeIdentifier("A")), 0)>>),
     StructEntry("A", <<TypedMember("x", TypeFelt, 0), TypedMember("x", TypeFelt, 1)>>),
     FunctionEntry("f", <<TypedMember("a", TypeIdentifier("A"), 0)>>,
                        <<TypedMember("r", TypeFelt, 0)>>),
     FunctionEntry("f", <<TypedMember("p", TypePointer(TypeIdentifier("B")), 0)>>, <<>>),
     FunctionEntry("g", <<TypedMember("p", TypeIdentifier("Z"), 0)>>, <<>>),
     FunctionEntry("g", <<TypedMember("p", TypeFelt, 0), TypedMember("p", TypeFelt, 0)>>, <<>>),
     FunctionEntry("h", <<TypedMember("p", TypeFelt, 0)>>,
                        <<TypedMember("q", TypeTuple(<<[name |-> "", typ |-> TypeFelt],
                                                       [name |-> "", typ |-> TypePointer(TypeFelt)]>>,
                                                     FALSE), 0)>>),
     EventEntry("e", <<TypedMember("v", TypeIdentifier("B"), 0)>>),
     EventEntry("t", <<TypedMember("v", TypeTuple(<<[name |-> "k", typ |-> TypeFelt]>>, TRUE), 0)>>),
     EventEntry("o", <<TypedMember("v", TypeCodeoffset, 0)>>)}

AbiLists == SeqsUpTo(AbiEntries, MaxEntries)

\* The most fields of a mapping handed to WrappedNamedTuple.from_dict.
MaxFields == 3

\* Field names: plain, with leading underscores, a keyword, one that is no
\* identifier, ones that look like positional names, and ones that the
\* wrapper itself uses.
FieldNames ==
    {<<"first">>, <<"_", "second">>, <<"_", "_", "third">>, <<"class">>, <<"a", " ", "b">>,
     <<"_", "0">>, <<"_", "1">>, <<"tuple", "_", "value">>, <<"_", "asdict">>}

FieldValues == {PyInt(1), PyInt(2)}

RECURSIVE DistinctSeqs(_, _)
\* The sequences over S of length at most n without a repeated element.
DistinctSeqs(S, n) ==
    IF n = 0 THEN {<<>>}
    ELSE LET shorter == DistinctSeqs(S, n - 1) IN
         shorter \cup UNION {{Append(s, x) : x \in S \ SeqToSet(s)} : s \in shorter}

\* The key lists of the mappings: a dict has no key twice.
FieldLists == DistinctSeqs(FieldNames, MaxFields)

(***************************************************************************)
(* The state machine.                                                      *)
(***************************************************************************)
Init ==
    /\ op = "init"
    /\ arg = <<>>
    /\ ret = <<>>

\* Calls do not overlap: an entry point is entered only when none is running
\* or awaiting its caller.
Idle == op = "init"

\* A caller reads unknown_dependencies and is_resolved of a type.
Introspect ==
    /\ Idle
    /\ \E t \in KnownTypes :
            /\ op' = "introspect"
            /\ arg' = t
            /\ ret' = [unknown_dependencies |-> unknown_dependencies(t),
                       is_resolved |-> is_resolved(t)]

\* A caller runs StructureResolver(structs_seq).resolve().
Resolve ==
    /\ Idle
    /\ \E structs_seq \in StructLists :
            /\ op' = "resolve"
            /\ arg' = structs_seq
            /\ ret' = ResolveStructs(structs_seq)

\* The caller has taken the outcome; nothing of the call is kept.
Release ==
    /\ ~Idle
    /\ op' = "init"
    /\ arg' = <<>>
    /\ ret' = <<>>

\* A caller constructs StructureRepository from an ABI's struct entries.
Repository ==
    /\ Idle
    /\ \E structs_list \in StructLists :
            /\ op' = "repository"
            /\ arg' = structs_list
            /\ ret' = StructureRepository_init(structs_list)

\* A caller decodes a flat sequence with a codec, in a context of its own.
DecodeCall ==
    /\ Idle
    /\ \E t \in Codecs, data \in DataLists :
            /\ op' = "decode"
            /\ arg' = [codec |-> t, data |-> data]
            /\ ret' = Decode(t, data)

\* A caller encodes a value with a codec, in a context of its own.
EncodeCall ==
    /\ Idle
    /\ \E t \in Codecs, value \in Values :
            /\ op' = "encode"
            /\ arg' = [codec |-> t, value |-> value]
            /\ ret' = Encode(t, value)

\* A caller builds the Abi model of a contract's ABI.
FromDict ==
    /\ Idle
    /\ \E abi \in AbiLists :
            /\ op' = "from_dict"
            /\ arg' = abi
            /\ ret' = Abi_from_dict(abi)

\* A caller wraps a mapping of results.
Wrap ==
    /\ Idle
    /\ \E fields \in FieldLists :
         \E values \in [1..Len(fields) -> FieldValues] :
            /\ op' = "wrap"
            /\ arg' = [keys |-> fields, items |-> values]
            /\ ret' = WrappedNamedTuple_from_dict([keys |-> fields, items |-> values])

Next ==
    \/ Introspect
    \/ Resolve
    \/ Repository
    \/ DecodeCall
    \/ EncodeCall
    \/ FromDict
    \/ Wrap
    \/ Release

Spec == Init /\ [][Next]_vars

(***************************************************************************)
(* Definitions used to state the properties.                               *)
(***************************************************************************)
RECURSIVE FullyResolved(_)
\* No sub-expression of t, at any depth, is an unresolved reference (or
\* anything else that is not a type).
FullyResolved(t) ==
    /\ t.kind \in KnownKinds
    /\ \A i \in 1..Len(t.types) : FullyResolved(t.types[i].t)

RECURSIVE ReachableUnknown(_)
\* The unresolved references reachable from a known type: each immediate
\* child that is one, and those reachable from each child that is known.
ReachableUnknown(t) ==
    UNION {IF t.types[i].t.kind = "unknown" THEN {t.types[i].t}
           ELSE ReachableUnknown(t.types[i].t) : i \in 1..Len(t.types)}

DistinctNames(structs) ==
    \A i, j \in 1..Len(structs) : structs[i].name = structs[j].name => i = j

AllDefined(structs) ==
    \A i \in 1..Len(structs) : UnresolvedNames(structs[i]) \subseteq StructNamesOf(structs)

RECURSIVE ResolvableFrom(_, _)
\* The structs a dependency-ordered resolution reaches, starting from done.
ResolvableFrom(structs, done) ==
    LET more == {structs[i].name : i \in {j \in 1..Len(structs) :
                                               UnresolvedNames(structs[j]) \subseteq done}}
    IN  IF more \subseteq done THEN done ELSE ResolvableFrom(structs, done \cup more)

\* The structs on a reference cycle or depending on one.
CycleClosure(structs) == StructNamesOf(structs) \ ResolvableFrom(structs, {})

HasCycle(structs) == CycleClosure(structs) # {}

RECURSIVE Substituted(_, _)
\* t with every reference replaced by the fully resolved struct it names
\* (defined for a cycle-free set with every name defined).
Substituted(t, structs) ==
    IF t.kind = "unknown" THEN Substituted(StructNamed(structs, t.name), structs)
    ELSE [t EXCEPT !.types = [i \in 1..Len(t.types) |->
                                  Member(t.types[i].n, Substituted(t.types[i].t, structs))]]

ExpectedResolved(structs) ==
    [n \in StructNamesOf(structs) |-> Substituted(StructNamed(structs, n), structs)]

OrdersOf(structs) ==
    {p \in SeqsUpTo(SeqToSet(structs), Len(structs)) :
         Len(p) = Len(structs) /\ SeqToSet(p) = SeqToSet(structs)}

IsCycleError(r, structs) ==
    /\ ~r.ok
    /\ r.err.type = "ValueError"
    /\ r.err.detail.what = "Cycle detected"
    /\ r.err.detail.names = CycleClosure(structs)

\* The value of a dict at a key it holds.
ValueAt(value, name) == value.items[CHOOSE i \in 1..Len(value.keys) : value.keys[i] = name]

RECURSIVE Canonical(_, _)
\* canonicalize(v) for the codec t: what decoding the encoding of an
\* accepted v is to yield.
Canonical(t, value) ==
    CASE t.kind = "felt" ->
             IF value.k = "str" THEN PyInt(from_bytes_big(value.s)) ELSE value
      [] t.kind = "uint256" -> value
      [] t.kind = "tuple" ->
             PyTuple([i \in 1..Len(t.types) |-> Canonical(t.types[i].t, value.items[i])])
      [] t.kind = "array" ->
             PyList([i \in 1..Len(value.items) |-> Canonical(t.types[1].t, value.items[i])])
      [] t.kind = "named" ->
             PyWrapped([i \in 1..Len(t.types) |-> t.types[i].n],
                       [i \in 1..Len(t.types) |->
                            Canonical(t.types[i].t, ValueAt(value, t.types[i].n))])
      [] t.kind = "struct" ->
             PyDict([i \in 1..Len(t.types) |-> t.types[i].n],
                    [i \in 1..Len(t.types) |->
                         Canonical(t.types[i].t, ValueAt(value, t.types[i].n))])

DeclaredMembers(t) == {t.types[i].n : i \in 1..Len(t.types)}

RECURSIVE WellShaped(_, _)
\* The value has the shape the codec t is declared for.
WellShaped(t, value) ==
    CASE t.kind = "felt" -> value.k \in {"int", "str"}
      [] t.kind = "uint256" -> value.k = "int"
      [] t.kind = "tuple" ->
             /\ value.k \in {"tuple", "list"}
             /\ Len(value.items) = Len(t.types)
             /\ \A i \in 1..Len(t.types) : WellShaped(t.types[i].t, value.items[i])
      [] t.kind = "array" ->
             /\ value.k = "list"
             /\ \A i \in 1..Len(value.items) : WellShaped(t.types[1].t, value.items[i])
      [] t.kind \in {"named", "struct"} ->
             /\ value.k \in (IF t.kind = "named" THEN {"dict", "namedtuple"} ELSE {"dict"})
             /\ DeclaredMembers(t) \subseteq SeqToSet(value.keys)
             /\ \A i \in 1..Len(t.types) :
                    WellShaped(t.types[i].t, ValueAt(value, t.types[i].n))

\* The dict restricted to the keys in names, in its own order.
Restricted(value, names) ==
    LET keep == SelectSeq([i \in 1..Len(value.keys) |-> i], LAMBDA i : value.keys[i] \in names)
    IN  PyDict([j \in 1..Len(keep) |-> value.keys[keep[j]]],
               [j \in 1..Len(keep) |-> value.items[keep[j]]])

\* The message names the path: one of its pieces is the joined stack.
CarriesPath(err) == Join(err.at) \in SeqToSet(err.detail)

\* The struct definitions of an ABI, parsed, in the ABI's order (for an
\* ABI whose struct entries all parse).
AbiStructs(abi) ==
    LET entries == EntriesOfType(abi, "struct") IN
    [i \in 1..Len(entries) |-> parse_abi_struct(entries[i]).val]

RECURSIVE IdentifiersOf(_)
\* The struct names a type string refers to.
IdentifiersOf(cairo_type) ==
    IF cairo_type.tag = "TypeIdentifier" THEN {cairo_type.name}
    ELSE UNION {IdentifiersOf(cairo_type.members[i].typ) : i \in 1..Len(cairo_type.members)}

\* The typed members of the function and event entries of an ABI.
EntityMembers(abi) ==
    UNION {SeqToSet(abi[i].inputs) \cup SeqToSet(abi[i].outputs) \cup SeqToSet(abi[i].data) :
               i \in 1..Len(abi)}

\* The struct names the function and event entries refer to.
EntityIdentifiers(abi) == UNION {IdentifiersOf(m.type) : m \in EntityMembers(abi)}

DistinctMemberNames(members) ==
    \A i, j \in 1..Len(members) : members[i].name = members[j].name => i = j

RECURSIVE Transformable(_)
\* The type string is built from felt, pointers, identifiers and tuples.
Transformable(cairo_type) ==
    /\ cairo_type.tag \in {"TypeFelt", "TypePointer", "TypeIdentifier", "TypeTuple"}
    /\ \A i \in 1..Len(cairo_type.members) : Transformable(cairo_type.members[i].typ)

\* An ABI with nothing wrong in it except, possibly, a function or event
\* member that names a struct the ABI does not define.
SoundAbi(abi) ==
    /\ \A i \in 1..Len(abi) :
           /\ DistinctMemberNames(abi[i].members)
           /\ DistinctMemberNames(abi[i].inputs)
           /\ DistinctMemberNames(abi[i].outputs)
           /\ DistinctMemberNames(abi[i].data)
           /\ \A m \in SeqToSet(abi[i].members) : Transformable(m.type)
    /\ \A m \in EntityMembers(abi) : Transformable(m.type)
    /\ DistinctNames(AbiStructs(abi))
    /\ AllDefined(AbiStructs(abi))
    /\ ~HasCycle(AbiStructs(abi))

RECURSIVE ExpectedType(_, _)
\* The type a type string stands for, every struct name replaced by the
\* fully resolved definition of that struct.
ExpectedType(cairo_type, structs) ==
    CASE cairo_type.tag = "TypeFelt" -> FeltType
      [] cairo_type.tag = "TypePointer" -> ArrayType(ExpectedType(cairo_type.members[1].typ, structs))
      [] cairo_type.tag = "TypeIdentifier" -> Substituted(UnknownType(cairo_type.name), structs)
      [] cairo_type.tag = "TypeTuple" ->
             LET ms == [i \in 1..Len(cairo_type.members) |->
                            Member(cairo_type.members[i].name,
                                   ExpectedType(cairo_type.members[i].typ, structs))]
             IN  IF cairo_type.is_named THEN NamedTupleTuple(ms)
                 ELSE [kind |-> "tuple", name |-> "", types |-> ms]

ExpectedMembers(params, structs) ==
    [i \in 1..Len(params) |-> Member(params[i].name, ExpectedType(params[i].type, structs))]

RECURSIVE IsScopePath(_, _)
\* path is the sequence of segments of the nest scopes open at some point
\* of a call of the codec t: the scopes from t down to one of its parts.
IsScopePath(t, path) ==
    \/ path = <<>>
    \/ /\ t.kind = "tuple"
       /\ \E i \in 1..Len(t.types) :
              path[1] = IndexSegment(i - 1) /\ IsScopePath(t.types[i].t, Tail(path))
    \/ /\ t.kind \in {"named", "struct"}
       /\ \E i \in 1..Len(t.types) :
              path[1] = KeySegment(t.types[i].n) /\ IsScopePath(t.types[i].t, Tail(path))
    \/ /\ t.kind = "array"
       /\ \/ path = <<".len">>
          \/ \E index \in 0..(MaxData + MaxItems) :
                 path[1] = IndexSegment(index) /\ IsScopePath(t.types[1].t, Tail(path))

\* The context of a call made inside scopes the caller has opened.
NestedContext(data) == [NewContext(data) EXCEPT !.namespace_stack = <<".outer", "[7]">>]

\* The run of resolve() on structs with distinct names: whether the
\* counting pass completed, the state it left, and the state the loop ended
\* in (with its moments).
ResolveRun(structs) ==
    LET c == count_pass(structs, 1, resolve_start) IN
    IF ~c.ok THEN [counted |-> FALSE, start |-> resolve_start, end |-> resolve_start]
    ELSE [counted |-> TRUE, start |-> c.val, end |-> resolve_loop(structs, c.val).val]

C2_CycleAlwaysDetected ==
    (/\ op \in {"resolve", "repository"}
     /\ DistinctNames(arg) /\ AllDefined(arg) /\ HasCycle(arg))
        => IsCycleError(ret, arg)

\* C3: a struct with an unresolved dependency that no input struct defines
\* makes resolve() fail with the missing-dependency error naming that
\* struct and that dependency.
C3_MissingDependencyReported ==
    (op = "resolve" /\ DistinctNames(arg) /\ ~AllDefined(arg)) =>
        /\ ~ret.ok
        /\ ret.err.type = "ValueError"
        /\ ret.err.detail.what = "not defined"
        /\ \E i \in 1..Len(arg) :
               /\ arg[i].name = ret.err.detail.struct
               /\ ret.err.detail.dep \in UnresolvedNames(arg[i]) \ StructNamesOf(arg)

\* C4: for a cycle-free struct set with every referenced name defined,
\* resolve() succeeds with every reference replaced by the resolved struct,
\* and does so for every order of the definitions.
C4_ResolutionOrderIndependent ==
    (op = "resolve" /\ DistinctNames(arg) /\ AllDefined(arg) /\ ~HasCycle(arg)) =>
        /\ ret.ok
        /\ ret.val = ExpectedResolved(arg)
        /\ \A p \in OrdersOf(arg) :
               ResolveStructs(p).ok /\ ResolveStructs(p).val = ret.val

\* C5: unknown_dependencies is the set of unresolved references reachable
\* from the type, and is_resolved is true exactly when that set is empty.
C5_DependencyIntrospection ==
    op = "introspect" =>
        /\ ret.unknown_dependencies.ok
        /\ ret.unknown_dependencies.val = ReachableUnknown(arg)
        /\ ret.is_resolved.ok
        /\ ret.is_resolved.val = (ReachableUnknown(arg) = {})

\* C6: for every codec and every value its encoder accepts, decoding the
\* encoding yields the canonical value and consumes exactly the encoding;
\* Array(Felt) encodes [5,7,9] to [3,5,7,9] and decodes [3,5,7,9] to
\* [5,7,9].
C6_RoundTrip ==
    /\ (op = "encode" /\ WellShaped(arg.codec, arg.value) /\ ret.ok) =>
           LET d == Decode(arg.codec, ret.val) IN
           /\ d.ok
           /\ d.val = Canonical(arg.codec, arg.value)
           /\ d.ctx.position = Len(ret.val)
    /\ (/\ op = "encode"
        /\ arg.codec = ArrayTransformer(FeltTransformer)
        /\ arg.value = PyList(<<PyInt(5), PyInt(7), PyInt(9)>>))
           => (ret.ok /\ ret.val = <<3, 5, 7, 9>>)
    /\ (/\ op = "decode"
        /\ arg.codec = ArrayTransformer(FeltTransformer)
        /\ arg.data = <<3, 5, 7, 9>>)
           => (ret.ok /\ ret.val = PyList(<<PyInt(5), PyInt(7), PyInt(9)>>))

\* C7: the 256-bit codec decodes (low, high) to high * 2^128 + low, with a
\* range error when that is outside [0, 2^256); it encodes v in range to
\* [v mod 2^128, v div 2^128], with a range error for any other integer;
\* 2^128 + 42 encodes to [42, 1] and [42, 1] decodes to 2^128 + 42.
C7_Uint256Codec ==
    /\ (op = "decode" /\ arg.codec = Uint256Transformer /\ Len(arg.data) >= 2) =>
           LET v == arg.data[2] * LIMB + arg.data[1] IN
           IF 0 <= v /\ v < UINT256_BOUND
           THEN ret.ok /\ ret.val = PyInt(v) /\ ret.ctx.position = 2
           ELSE ~ret.ok /\ ret.err.type = "ValueError"
    /\ (op = "encode" /\ arg.codec = Uint256Transformer /\ arg.value.k = "int") =>
           LET v == arg.value.n IN
           IF 0 <= v /\ v < UINT256_BOUND
           THEN ret.ok /\ ret.val = <<v % LIMB, v \div LIMB>>
           ELSE ~ret.ok /\ ret.err.type = "ValueError"
    /\ (op = "encode" /\ arg.codec = Uint256Transformer /\ arg.value = PyInt(LIMB + 42)) =>
           (ret.ok /\ ret.val = <<42, 1>>)
    /\ (op = "decode" /\ arg.codec = Uint256Transformer /\ arg.data = <<42, 1>>) =>
           (ret.ok /\ ret.val = PyInt(LIMB + 42))

\* [42, 1] has been decoded to 2^128 + 42.
C7_Witness ==
    /\ op = "decode"
    /\ arg.codec = Uint256Transformer
    /\ arg.data = <<42, 1>>
    /\ ret.ok
    /\ ret.val = PyInt(LIMB + 42)

\* C8: the Felt codec's decode consumes exactly one element and fails if it
\* is outside [0, modulus); its encode fails for an integer outside that
\* range and for a value that is neither an integer nor a text; every
\* element it emits is an unsigned integer below the modulus.
C8_FeltCodec ==
    /\ (op = "decode" /\ arg.codec = FeltTransformer /\ arg.data # <<>>) =>
           /\ ret.ctx.position = 1
           /\ IF 0 <= arg.data[1] /\ arg.data[1] < FIELD_PRIME
              THEN ret.ok /\ ret.val = PyInt(arg.data[1])
              ELSE ~ret.ok
    /\ (op = "encode" /\ arg.codec = FeltTransformer) =>
           /\ (arg.value.k = "int" /\ ~(0 <= arg.value.n /\ arg.value.n < FIELD_PRIME)) => ~ret.ok
           /\ arg.value.k \notin {"int", "str"} => ~ret.ok
           /\ ret.ok => (/\ Len(ret.val) = 1
                         /\ 0 <= ret.val[1]
                         /\ ret.val[1] < FIELD_PRIME)

\* A short text of the greatest length has been encoded to one element.
C8_Witness ==
    /\ op = "encode"
    /\ arg.codec = FeltTransformer
    /\ arg.value.k = "str"
    /\ Len(arg.value.s) = MAX_SHORTSTRING_LENGTH
    /\ ret.ok
    /\ ret.val[1] > 0

\* C9: when a codec nested at any depth fails, the error reaching the
\* top-level caller carries the path of the enclosing nest scopes, from the
\* root to the failing leaf, whatever the kind of failure.
C9_NestedErrorCarriesPath ==
    (op \in {"encode", "decode"} /\ ~ret.ok /\ ret.err.at # <<>>) => CarriesPath(ret.err)

\* C10: encoding with a Struct codec succeeds only if every declared member
\* is a key of the input; a missing member fails with the missing-field
\* error whose message path names that member; keys that are not declared
\* do not change the outcome.
C10_StructEncodeMissingField ==
    (op = "encode" /\ arg.codec.kind = "struct" /\ arg.value.k = "dict") =>
        LET declared == DeclaredMembers(arg.codec)
            present == SeqToSet(arg.value.keys)
            trimmed == Encode(arg.codec, Restricted(arg.value, declared))
        IN  /\ ret.ok => declared \subseteq present
            /\ ~(declared \subseteq present) => ~ret.ok
            /\ (~ret.ok /\ ret.err.type = "InvalidValueException") =>
                   /\ \E m \in declared \ present :
                          ret.err.at[Len(ret.err.at)] = KeySegment(m)
                   /\ CarriesPath(ret.err)
            /\ trimmed.ok = ret.ok
            /\ ret.ok => trimmed.val = ret.val

\* C11: Abi.from_dict resolves the struct entries first, so for an ABI with
\* nothing else wrong in it every function and event member type that names
\* a struct becomes that struct's fully resolved definition, wherever the
\* struct entry stands in the list; and from_dict fails, returning no model,
\* when a function or event member type names a struct that is not defined.
C11_AbiStructsResolvedFirst ==
    (op = "from_dict" /\ SoundAbi(arg)) =>
        LET structs == AbiStructs(arg) IN
        IF EntityIdentifiers(arg) \subseteq StructNamesOf(structs)
        THEN /\ ret.ok
             /\ ret.val.defined_structures = ExpectedResolved(structs)
             /\ \A i \in 1..Len(arg) :
                    /\ arg[i].type = "function" =>
                           \E j \in i..Len(arg) :
                               /\ arg[j].type = "function" /\ arg[j].name = arg[i].name
                               /\ ret.val.functions[arg[i].name] =
                                      [name |-> arg[j].name,
                                       inputs |-> ExpectedMembers(arg[j].inputs, structs),
                                       outputs |-> ExpectedMembers(arg[j].outputs, structs)]
                    /\ arg[i].type = "event" =>
                           \E j \in i..Len(arg) :
                               /\ arg[j].type = "event" /\ arg[j].name = arg[i].name
                               /\ ret.val.events[arg[i].name] =
                                      [name |-> arg[j].name,
                                       data |-> ExpectedMembers(arg[j].data, structs)]
        ELSE ~ret.ok

\* The part of C11 that the code keeps: an ABI without struct entries is
\* parsed, and a member type naming a struct fails with "is not defined".
C11_UndefinedStructRejected ==
    (op = "from_dict" /\ SoundAbi(arg) /\ EntriesOfType(arg, "struct") = <<>>) =>
        IF EntityIdentifiers(arg) = {}
        THEN ret.ok /\ ret.val.defined_structures = EmptyDict
        ELSE ~ret.ok /\ ret.err.type = "ValueError" /\ ret.err.detail.what = "is not defined"

\* C12: for every mapping with distinct field names, names with leading
\* underscores included, WrappedNamedTuple.from_dict gives a value that
\* equals the tuple of the mapping's values in insertion order, returns the
\* i-th value at index i, returns d[name] for attribute access by each
\* original name, and whose _asdict() is the mapping.
C12_WrappedNamedTuple ==
    op = "wrap" =>
        /\ ret.ok
        /\ WrappedNamedTuple_eq(ret.val, arg.items)
        /\ \A i \in 1..Len(arg.keys) :
               /\ WrappedNamedTuple_getitem(ret.val, i - 1) = Ok(arg.items[i])
               /\ AttributeAccess(ret.val, arg.keys[i]) = Ok(arg.items[i])
        /\ WrappedNamedTuple_asdict(ret.val) = arg

\* The same without the names the wrapper uses for itself: this the code
\* keeps.
C12_ExceptOwnAttributes ==
    (op = "wrap" /\ SeqToSet(arg.keys) \cap OwnAttributes = {}) =>
        /\ ret.ok
        /\ WrappedNamedTuple_eq(ret.val, arg.items)
        /\ \A i \in 1..Len(arg.keys) :
               /\ WrappedNamedTuple_getitem(ret.val, i - 1) = Ok(arg.items[i])
               /\ AttributeAccess(ret.val, arg.keys[i]) = Ok(arg.items[i])
        /\ WrappedNamedTuple_asdict(ret.val) = arg

\* C13: every nest scope pops the segment it pushed on every exit path:
\* after a top-level encode or decode, succeeded or failed at any depth,
\* the namespace stack is what it was when the call began (empty, or the
\* scopes the caller had open), and at the point of a failure the stack is
\* the sequence of the segments of the scopes open there.
C13_NestStackDiscipline ==
    /\ op = "decode" =>
           LET nested == to_python(arg.codec, NestedContext(arg.data)) IN
           /\ ret.ctx.namespace_stack = <<>>
           /\ nested.ctx.namespace_stack = NestedContext(arg.data).namespace_stack
           /\ nested.ok = ret.ok
           /\ ~ret.ok =>
                  /\ IsScopePath(arg.codec, ret.err.at)
                  /\ nested.err.at = NestedContext(arg.data).namespace_stack \o ret.err.at
    /\ op = "encode" =>
           LET nested == from_python(arg.codec, NestedContext(<<>>), arg.value) IN
           /\ ret.ctx.namespace_stack = <<>>
           /\ nested.ctx.namespace_stack = NestedContext(<<>>).namespace_stack
           /\ nested.ok = ret.ok
           /\ ~ret.ok =>
                  /\ IsScopePath(arg.codec, ret.err.at)
                  /\ nested.err.at = NestedContext(<<>>).namespace_stack \o ret.err.at

\* A decode has failed two scopes deep, after a sibling scope was left, and
\* the stack is empty again.
C13_Witness ==
    /\ op = "decode"
    /\ ~ret.ok
    /\ Len(ret.err.at) = 3
    /\ ret.err.at[2] = IndexSegment(1)
    /\ ret.ctx.namespace_stack = <<>>

C14_AtEachPop ==
    (op = "resolve" /\ DistinctNames(arg) /\ ResolveRun(arg).counted) =>
        LET moments == ResolveRun(arg).end.moments IN
        /\ moments = <<>>
        /\ ResolveRun(arg).start.resolvable_types = <<>>

\* C15: the 256-bit codec's decode and encode are mutually inverse on what
\* decode accepts: if [low, high] is decoded, both limbs are in [0, 2^128),
\* encoding the decoded value gives [low, high] back, and no other pair of
\* limbs decodes to the same value.
C15_Uint256Inverse ==
    (op = "decode" /\ arg.codec = Uint256Transformer /\ Len(arg.data) = 2 /\ ret.ok) =>
        /\ 0 <= arg.data[1] /\ arg.data[1] < LIMB
        /\ 0 <= arg.data[2] /\ arg.data[2] < LIMB
        /\ Encode(Uint256Transformer, ret.val).ok
        /\ Encode(Uint256Transformer, ret.val).val = arg.data
        /\ \A low, high \in LimbSamples :
               LET other == Decode(Uint256Transformer, <<low, high>>) IN
               (other.ok /\ other.val = ret.val) => <<low, high>> = arg.data

\* The converse, which the code keeps: every value encode accepts is
\* decoded from its two limbs to itself.
C15_DecodeInvertsEncode ==
    (op = "encode" /\ arg.codec = Uint256Transformer /\ ret.ok) =>
        LET back == Decode(Uint256Transformer, ret.val) IN
        /\ back.ok
        /\ back.val = arg.value
        /\ back.ctx.position = 2

====
